---- MODULE Spec2Model ----
(***************************************************************************)
(* Model of openzgy's MinMaxScan (src/openzgy/impl/minmaxscan.cpp).        *)
(*                                                                         *)
(* A float is its IEEE-754 binary32 bit pattern, written <<sign, mag>>:    *)
(* sign is bit 31 and mag the low 31 bits (exponent and mantissa).  A      *)
(* __m128 register is a 4-tuple of floats, lane 0 first.  A sample buffer  *)
(* is a function from the offsets 0..n-1 to floats.                        *)
(***************************************************************************)
EXTENDS Integers, Sequences, FiniteSets, TLC

\* ------------------------------------------------------------------------
\* Bounds of the model
\* ------------------------------------------------------------------------
ShortLen == 3
LongLen == 9
MaxStride == 2
MaxEnv == 4

\* ------------------------------------------------------------------------
\* Program constants
\* ------------------------------------------------------------------------
\* 0x7F800000: the all-ones exponent, the bit pattern of +Infinity
EXP_ALL_ONES == 2139095040
\* 0x7FFFFFFF: every bit but the sign
MAG_MASK == 2147483647
\* sizes up to this one take the strided/small-size path
SMALL_SIZE == 8
\* floats in a __m128 register
LANES == 4
\* default of OPENZGY_HACK_SSE2_MODE
DEFAULT_MODE == 0

\* ------------------------------------------------------------------------
\* IEEE-754 binary32 values and the comparisons the code uses
\* ------------------------------------------------------------------------
PInf == <<0, EXP_ALL_ONES>>
NInf == <<1, EXP_ALL_ONES>>
\* 0x7FC00000, the quiet NaN
NaN == <<0, EXP_ALL_ONES + 4194304>>
PZero == <<0, 0>>
NZero == <<1, 0>>
\* 0x3F800000 and 0xBF800000
One == <<0, 1065353216>>
NegOne == <<1, 1065353216>>

IsNaN(v) == v[2] > EXP_ALL_ONES

\* the position of a non-NaN value on the real line (sign-magnitude order)
Key(v) == IF v[1] = 1 THEN 0 - v[2] ELSE v[2]

\* a < b on floats: false when either operand is NaN
flt(a, b) == ~IsNaN(a) /\ ~IsNaN(b) /\ Key(a) < Key(b)

\* a > b on floats: false when either operand is NaN
fgt(a, b) == ~IsNaN(a) /\ ~IsNaN(b) /\ Key(a) > Key(b)

\* a == b on floats: false when either operand is NaN, true for -0 and +0
feq(a, b) == ~IsNaN(a) /\ ~IsNaN(b) /\ Key(a) = Key(b)

\* bitwise AND and OR of two 31-bit magnitudes
RECURSIVE BitAnd(_, _)
BitAnd(x, y) ==
    IF x = 0 \/ y = 0 THEN 0
    ELSE IF x = MAG_MASK THEN y
    ELSE IF y = MAG_MASK THEN x
    ELSE (x % 2) * (y % 2) + 2 * BitAnd(x \div 2, y \div 2)

RECURSIVE BitOr(_, _)
BitOr(x, y) ==
    IF x = 0 THEN y
    ELSE IF y = 0 THEN x
    ELSE (IF x % 2 = 1 \/ y % 2 = 1 THEN 1 ELSE 0) + 2 * BitOr(x \div 2, y \div 2)

\* ------------------------------------------------------------------------
\* cpu_isFinite and the scalar reductions
\* ------------------------------------------------------------------------
\* Fault: the sign bit is not masked off, and the whole unsigned pattern is
\* compared with 0x7F800000.
cpu_isFinite_noMask(val) == val[1] = 0 /\ val[2] < EXP_ALL_ONES

\* memcpy puts the float's bits into punnedVal; & 0x7FFFFFFF clears bit 31 and
\* keeps the low 31 bits
cpu_isFinite(val) ==
    LET punnedVal == val
    IN BitAnd(punnedVal[2], MAG_MASK) < EXP_ALL_ONES

\* Fault: the two seeds exchanged.
Sentinel_swapped == [min |-> NInf, max |-> PInf, reads |-> {}]

\* the result of a reduction: the two outputs and the buffer offsets read
Sentinel == [min |-> PInf, max |-> NInf, reads |-> {}]

\* Fault: the comparisons written as negations, !(v >= min) and !(v <= max),
\* which a NaN passes.
cpu_stridedMinMax_body_negated(values, index, st) ==
    [min |-> IF ~(fgt(values[index], st.min) \/ feq(values[index], st.min)) THEN values[index] ELSE st.min,
     max |-> IF ~(flt(values[index], st.max) \/ feq(values[index], st.max)) THEN values[index] ELSE st.max,
     reads |-> st.reads \cup {index}]

\* one iteration of cpu_stridedMinMax's loop on the element at `index`
cpu_stridedMinMax_body(values, index, st) ==
    [min |-> IF flt(values[index], st.min) THEN values[index] ELSE st.min,
     max |-> IF fgt(values[index], st.max) THEN values[index] ELSE st.max,
     reads |-> st.reads \cup {index}]

RECURSIVE cpu_stridedMinMax_loop(_, _, _, _, _, _)
cpu_stridedMinMax_loop(values, size, stride, i, index, st) ==
    IF i < size
    THEN cpu_stridedMinMax_loop(values, size, stride, i + 1, index + stride,
                                cpu_stridedMinMax_body(values, index, st))
    ELSE st

\* Fault: the index advances by 1, not by stride.
cpu_stridedMinMax_unitStride(values, size, stride) ==
    cpu_stridedMinMax_loop(values, size, 1, 0, 0, Sentinel)

cpu_stridedMinMax(values, size, stride) ==
    cpu_stridedMinMax_loop(values, size, stride, 0, 0, Sentinel)

\* one iteration of cpu_stridedMinMaxSafe's loop on the element at `index`
cpu_stridedMinMaxSafe_body(values, index, st) ==
    IF cpu_isFinite(values[index])
    THEN [min |-> IF flt(values[index], st.min) THEN values[index] ELSE st.min,
          max |-> IF fgt(values[index], st.max) THEN values[index] ELSE st.max,
          reads |-> st.reads \cup {index}]
    ELSE [st EXCEPT !.reads = @ \cup {index}]

RECURSIVE cpu_stridedMinMaxSafe_loop(_, _, _, _, _, _)
cpu_stridedMinMaxSafe_loop(values, size, stride, i, index, st) ==
    IF i < size
    THEN cpu_stridedMinMaxSafe_loop(values, size, stride, i + 1, index + stride,
                                    cpu_stridedMinMaxSafe_body(values, index, st))
    ELSE st

cpu_stridedMinMaxSafe(values, size, stride) ==
    cpu_stridedMinMaxSafe_loop(values, size, stride, 0, 0, Sentinel)

\* ------------------------------------------------------------------------
\* The SSE/SSE2 instructions the vector paths use
\* ------------------------------------------------------------------------
\* MINSS/MINPS on one lane: the second operand unless a < b
MinLane(a, b) == IF flt(a, b) THEN a ELSE b

\* MAXSS/MAXPS on one lane: the second operand unless a > b
MaxLane(a, b) == IF fgt(a, b) THEN a ELSE b

mm_set_ss(x) == <<x, PZero, PZero, PZero>>

mm_set1_ps(x) == <<x, x, x, x>>

mm_loadu_ps(values, i) == <<values[i], values[i + 1], values[i + 2], values[i + 3]>>

mm_min_ss(a, b) == <<MinLane(a[1], b[1]), a[2], a[3], a[4]>>

mm_max_ss(a, b) == <<MaxLane(a[1], b[1]), a[2], a[3], a[4]>>

mm_min_ps(a, b) == <<MinLane(a[1], b[1]), MinLane(a[2], b[2]), MinLane(a[3], b[3]), MinLane(a[4], b[4])>>

mm_max_ps(a, b) == <<MaxLane(a[1], b[1]), MaxLane(a[2], b[2]), MaxLane(a[3], b[3]), MaxLane(a[4], b[4])>>

\* a comparison's lane is all ones when it holds and all zeros when not
AllOnes == <<1, MAG_MASK>>

MaskLane(b) == IF b THEN AllOnes ELSE PZero

mm_cmpord_ps(a, b) == <<MaskLane(~IsNaN(a[1]) /\ ~IsNaN(b[1])), MaskLane(~IsNaN(a[2]) /\ ~IsNaN(b[2])),
                        MaskLane(~IsNaN(a[3]) /\ ~IsNaN(b[3])), MaskLane(~IsNaN(a[4]) /\ ~IsNaN(b[4]))>>

mm_cmpneq_ps(a, b) == <<MaskLane(~feq(a[1], b[1])), MaskLane(~feq(a[2], b[2])),
                        MaskLane(~feq(a[3], b[3])), MaskLane(~feq(a[4], b[4]))>>

AndLane(a, b) == <<a[1] * b[1], BitAnd(a[2], b[2])>>

AndNotLane(a, b) == <<(1 - a[1]) * b[1], BitAnd(MAG_MASK - a[2], b[2])>>

OrLane(a, b) == <<IF a[1] = 1 \/ b[1] = 1 THEN 1 ELSE 0, BitOr(a[2], b[2])>>

mm_and_ps(a, b) == <<AndLane(a[1], b[1]), AndLane(a[2], b[2]), AndLane(a[3], b[3]), AndLane(a[4], b[4])>>

mm_andnot_ps(a, b) == <<AndNotLane(a[1], b[1]), AndNotLane(a[2], b[2]), AndNotLane(a[3], b[3]), AndNotLane(a[4], b[4])>>

mm_or_ps(a, b) == <<OrLane(a[1], b[1]), OrLane(a[2], b[2]), OrLane(a[3], b[3]), OrLane(a[4], b[4])>>

\* _mm_shuffle_ps(a, b, _MM_SHUFFLE(z, y, x, w)): lanes a[w], a[x], b[y], b[z]
mm_shuffle_ps(a, b, z, y, x, w) == <<a[w + 1], a[x + 1], b[y + 1], b[z + 1]>>

mm_store_ss(a) == a[1]

\* ------------------------------------------------------------------------
\* The vector reductions
\* ------------------------------------------------------------------------
\* Fault: the second shuffle repeats the first, so lane 1 never reaches lane 0.
sse2_reduceMinMax_sameShuffle(minVec0, maxVec0, reads) ==
    LET minVec1 == mm_min_ps(minVec0, mm_shuffle_ps(minVec0, minVec0, 2, 1, 0, 3))
        minVec2 == mm_min_ps(minVec1, mm_shuffle_ps(minVec1, minVec1, 2, 1, 0, 3))
        maxVec1 == mm_max_ps(maxVec0, mm_shuffle_ps(maxVec0, maxVec0, 2, 1, 0, 3))
        maxVec2 == mm_max_ps(maxVec1, mm_shuffle_ps(maxVec1, maxVec1, 2, 1, 0, 3))
    IN [min |-> mm_store_ss(minVec2), max |-> mm_store_ss(maxVec2), reads |-> reads]

sse2_reduceMinMax(minVec0, maxVec0, reads) ==
    LET minVec1 == mm_min_ps(minVec0, mm_shuffle_ps(minVec0, minVec0, 2, 1, 0, 3))
        minVec2 == mm_min_ps(minVec1, mm_shuffle_ps(minVec1, minVec1, 1, 0, 3, 2))
        maxVec1 == mm_max_ps(maxVec0, mm_shuffle_ps(maxVec0, maxVec0, 2, 1, 0, 3))
        maxVec2 == mm_max_ps(maxVec1, mm_shuffle_ps(maxVec1, maxVec1, 1, 0, 3, 2))
    IN [min |-> mm_store_ss(minVec2), max |-> mm_store_ss(maxVec2), reads |-> reads]

\* one iteration of sse2_stridedMinMax's loop; st holds minVal, maxVal and reads
sse2_stridedMinMax_body(values, index, st) ==
    LET temp == mm_set_ss(values[index])
    IN [minVal |-> mm_min_ss(st.minVal, temp),
        maxVal |-> mm_max_ss(st.maxVal, temp),
        reads |-> st.reads \cup {index}]

RECURSIVE sse2_stridedMinMax_loop(_, _, _, _, _, _)
sse2_stridedMinMax_loop(values, size, stride, i, index, st) ==
    IF i < size
    THEN sse2_stridedMinMax_loop(values, size, stride, i + 1, index + stride,
                                 sse2_stridedMinMax_body(values, index, st))
    ELSE st

sse2_stridedMinMax(values, size, stride) ==
    LET st == sse2_stridedMinMax_loop(values, size, stride, 0, 0,
                  [minVal |-> mm_set_ss(PInf), maxVal |-> mm_set_ss(NInf), reads |-> {}])
    IN [min |-> mm_store_ss(st.minVal), max |-> mm_store_ss(st.maxVal), reads |-> st.reads]

\* the unrolled loop of sse2_vectorMinMax: 4 floats per iteration
sse2_vectorMinMax_unrolled_body(values, i, st) ==
    LET temp == mm_loadu_ps(values, i)
    IN [minVal |-> mm_min_ps(temp, st.minVal),
        maxVal |-> mm_max_ps(temp, st.maxVal),
        reads |-> st.reads \cup {i, i + 1, i + 2, i + 3}]

RECURSIVE sse2_vectorMinMax_unrolled(_, _, _, _)
sse2_vectorMinMax_unrolled(values, unrollSize, i, st) ==
    IF i < unrollSize
    THEN sse2_vectorMinMax_unrolled(values, unrollSize, i + LANES,
                                    sse2_vectorMinMax_unrolled_body(values, i, st))
    ELSE st

\* the remainder loop of sse2_vectorMinMax: one float per iteration, lane 0
RECURSIVE sse2_vectorMinMax_tail(_, _, _, _)
sse2_vectorMinMax_tail(values, size, i, st) ==
    IF i < size
    THEN sse2_vectorMinMax_tail(values, size, i + 1,
                                sse2_stridedMinMax_body(values, i, st))
    ELSE st

UnrollSize(size) == (size \div LANES) * LANES

\* Fault: the registers are seeded with the infinities, as in the safe variant,
\* while the loop still starts at the second group of four.
sse2_vectorMinMax_seeded(values, size) ==
    LET unrollSize == UnrollSize(size)
        st0 == [minVal |-> mm_set1_ps(PInf), maxVal |-> mm_set1_ps(NInf), reads |-> {}]
        st1 == sse2_vectorMinMax_unrolled(values, unrollSize, LANES, st0)
        st2 == sse2_vectorMinMax_tail(values, size, unrollSize, st1)
    IN sse2_reduceMinMax(st2.minVal, st2.maxVal, st2.reads)

sse2_vectorMinMax(values, size) ==
    LET unrollSize == UnrollSize(size)
        minVals == mm_loadu_ps(values, 0)
        st0 == [minVal |-> minVals, maxVal |-> minVals, reads |-> {0, 1, 2, 3}]
        st1 == sse2_vectorMinMax_unrolled(values, unrollSize, LANES, st0)
        st2 == sse2_vectorMinMax_tail(values, size, unrollSize, st1)
    IN sse2_reduceMinMax(st2.minVal, st2.maxVal, st2.reads)

\* ordered AND not +Infinity AND not -Infinity, per lane
IsValid(temp) ==
    mm_and_ps(mm_and_ps(mm_cmpord_ps(temp, temp), mm_cmpneq_ps(temp, mm_set1_ps(PInf))),
              mm_cmpneq_ps(temp, mm_set1_ps(NInf)))

\* (isValid & temp) | (~isValid & running)
Masked(isValid, temp, running) ==
    mm_or_ps(mm_and_ps(isValid, temp), mm_andnot_ps(isValid, running))

\* one iteration of sse2_stridedMinMaxSafe's loop
sse2_stridedMinMaxSafe_body(values, index, st) ==
    LET temp == mm_set_ss(values[index])
        isValid == IsValid(temp)
        maskedMinTemp == Masked(isValid, temp, st.minVal)
        maskedMaxTemp == Masked(isValid, temp, st.maxVal)
    IN [minVal |-> mm_min_ss(st.minVal, maskedMinTemp),
        maxVal |-> mm_max_ss(st.maxVal, maskedMaxTemp),
        reads |-> st.reads \cup {index}]

RECURSIVE sse2_stridedMinMaxSafe_loop(_, _, _, _, _, _)
sse2_stridedMinMaxSafe_loop(values, size, stride, i, index, st) ==
    IF i < size
    THEN sse2_stridedMinMaxSafe_loop(values, size, stride, i + 1, index + stride,
                                     sse2_stridedMinMaxSafe_body(values, index, st))
    ELSE st

sse2_stridedMinMaxSafe(values, size, stride) ==
    LET st == sse2_stridedMinMaxSafe_loop(values, size, stride, 0, 0,
                  [minVal |-> mm_set_ss(PInf), maxVal |-> mm_set_ss(NInf), reads |-> {}])
    IN [min |-> mm_store_ss(st.minVal), max |-> mm_store_ss(st.maxVal), reads |-> st.reads]

\* the unrolled loop of sse2_vectorMinMaxSafe
sse2_vectorMinMaxSafe_unrolled_body(values, i, st) ==
    LET temp == mm_loadu_ps(values, i)
        isValid == IsValid(temp)
        maskedMinTemp == Masked(isValid, temp, st.minVal)
        maskedMaxTemp == Masked(isValid, temp, st.maxVal)
    IN [minVal |-> mm_min_ps(maskedMinTemp, st.minVal),
        maxVal |-> mm_max_ps(maskedMaxTemp, st.maxVal),
        reads |-> st.reads \cup {i, i + 1, i + 2, i + 3}]

RECURSIVE sse2_vectorMinMaxSafe_unrolled(_, _, _, _)
sse2_vectorMinMaxSafe_unrolled(values, unrollSize, i, st) ==
    IF i < unrollSize
    THEN sse2_vectorMinMaxSafe_unrolled(values, unrollSize, i + LANES,
                                        sse2_vectorMinMaxSafe_unrolled_body(values, i, st))
    ELSE st

\* the remainder loop of sse2_vectorMinMaxSafe
RECURSIVE sse2_vectorMinMaxSafe_tail(_, _, _, _)
sse2_vectorMinMaxSafe_tail(values, size, i, st) ==
    IF i < size
    THEN sse2_vectorMinMaxSafe_tail(values, size, i + 1,
                                    sse2_stridedMinMaxSafe_body(values, i, st))
    ELSE st

sse2_vectorMinMaxSafe(values, size) ==
    LET unrollSize == UnrollSize(size)
        st0 == [minVal |-> mm_set1_ps(PInf), maxVal |-> mm_set1_ps(NInf), reads |-> {}]
        st1 == sse2_vectorMinMaxSafe_unrolled(values, unrollSize, 0, st0)
        st2 == sse2_vectorMinMaxSafe_tail(values, size, unrollSize, st1)
    IN sse2_reduceMinMax(st2.minVal, st2.maxVal, st2.reads)

\* ------------------------------------------------------------------------
\* The override mode and the dispatch
\* ------------------------------------------------------------------------
\* the external setting: <<>> when OPENZGY_HACK_SSE2_MODE is unset, <<n>> when set
getNumericEnv(e, dflt) == IF e = <<>> THEN dflt ELSE e[1]

\* Fault: the variable is not static, and every call reads the setting anew.
hack_sse2_mode_noStatic(static, e) ==
    [static |-> <<getNumericEnv(e, DEFAULT_MODE)>>, envReads |-> 1,
     ret |-> getNumericEnv(e, DEFAULT_MODE)]

\* the function-local static: <<>> before its initialisation, <<mode>> after.
\* Returns the static after the call, the number of reads of the external
\* setting the call made, and the value returned.
hack_sse2_mode(static, e) ==
    LET after == IF static = <<>> THEN <<getNumericEnv(e, DEFAULT_MODE)>> ELSE static
    IN [static |-> after, envReads |-> IF static = <<>> THEN 1 ELSE 0, ret |-> after[1]]

\* the implementation unsafeScanArray runs: its #ifdef and if/else chain
unsafeScanArray_path(use_sse2_instructions, m, size, stride) ==
    IF use_sse2_instructions
    THEN IF m = 2 \/ m = 3 THEN "cpu_stridedMinMax"
         ELSE IF m = 1 \/ stride # 1 \/ size <= SMALL_SIZE THEN "sse2_stridedMinMax"
         ELSE "sse2_vectorMinMax"
    ELSE "cpu_stridedMinMax"

unsafeScanArray_run(path, values, size, stride) ==
    IF path = "cpu_stridedMinMax" THEN cpu_stridedMinMax(values, size, stride)
    ELSE IF path = "sse2_stridedMinMax" THEN sse2_stridedMinMax(values, size, stride)
    ELSE sse2_vectorMinMax(values, size)

\* Fault: size < 8 where the code has size <= 8.
scanArray_path_lessThan(use_sse2_instructions, m, size, stride) ==
    IF use_sse2_instructions
    THEN IF m = 2 \/ m = 3 THEN "cpu_stridedMinMaxSafe"
         ELSE IF m = 1 \/ stride # 1 \/ size < SMALL_SIZE THEN "sse2_stridedMinMaxSafe"
         ELSE "sse2_vectorMinMaxSafe"
    ELSE "cpu_stridedMinMaxSafe"

\* the implementation scanArray runs: its #ifdef and if/else chain
scanArray_path(use_sse2_instructions, m, size, stride) ==
    IF use_sse2_instructions
    THEN IF m = 2 \/ m = 3 THEN "cpu_stridedMinMaxSafe"
         ELSE IF m = 1 \/ stride # 1 \/ size <= SMALL_SIZE THEN "sse2_stridedMinMaxSafe"
         ELSE "sse2_vectorMinMaxSafe"
    ELSE "cpu_stridedMinMaxSafe"

scanArray_run(path, values, size, stride) ==
    IF path = "cpu_stridedMinMaxSafe" THEN cpu_stridedMinMaxSafe(values, size, stride)
    ELSE IF path = "sse2_stridedMinMaxSafe" THEN sse2_stridedMinMaxSafe(values, size, stride)
    ELSE sse2_vectorMinMaxSafe(values, size)

\* Fault: has_sse2 with the test of use_sse2.
has_sse2_ret_likeUse(use_sse2_instructions, m) ==
    IF use_sse2_instructions THEN m # 3 ELSE FALSE

has_sse2_ret(use_sse2_instructions, m) ==
    IF use_sse2_instructions THEN m # 2 /\ m # 3 ELSE FALSE

\* Fault: use_sse2 with the test of has_sse2.
use_sse2_ret_likeHas(use_sse2_instructions, m) ==
    IF use_sse2_instructions THEN m # 2 /\ m # 3 ELSE FALSE

use_sse2_ret(use_sse2_instructions, m) ==
    IF use_sse2_instructions THEN m # 3 ELSE FALSE

\* ------------------------------------------------------------------------
\* State
\* ------------------------------------------------------------------------
VARIABLES
    sse,        \* USE_SSE2_INSTRUCTIONS is defined in this build
    env,        \* OPENZGY_HACK_SSE2_MODE: <<>> unset, <<n>> set to n
    mode,       \* hack_sse2_mode's static: <<>> not initialised yet, <<n>> after
    envReads,   \* how many times the external setting has been read
    values,     \* the caller's buffer
    size,       \* the caller's size
    stride,     \* the caller's stride
    fn,         \* the last function called, "none" before the first call
    min,        \* the caller's min output
    max,        \* the caller's max output
    impl,       \* the implementations the last scan call ran, in order
    reads,      \* the buffer offsets the last scan call read
    observed,   \* the mode the last call got from hack_sse2_mode, <<>> if none
    hasRet,     \* the last return value of has_sse2, <<>> before its first call
    useRet      \* the last return value of use_sse2, <<>> before its first call

vars == <<sse, env, mode, envReads, values, size, stride, fn, min, max, impl,
          reads, observed, hasRet, useRet>>

\* ------------------------------------------------------------------------
\* Inputs
\* ------------------------------------------------------------------------
Vals == {NaN, PInf, NInf, NZero, PZero, One}

LongVals == Vals \cup {NegOne}

Modes == {0, 1, 2, 3}

BufLen(buf) == Cardinality(DOMAIN buf)

\* the caller's precondition: the buffer holds (size-1)*stride + 1 elements
Fits(buf, sz, st) == sz = 0 \/ (sz - 1) * st + 1 <= BufLen(buf)

ShortBufs == [0 .. ShortLen - 1 -> Vals]

\* buffers long enough for the bulk path: one filler value and at most two
\* other elements
SparseBufs ==
    UNION { { [i \in 0 .. n - 1 |-> IF i = p THEN a ELSE IF i = q THEN b ELSE f] :
                p \in 0 .. n - 1, q \in 0 .. n - 1, a \in LongVals, b \in LongVals, f \in LongVals }
            : n \in SMALL_SIZE + 1 .. LongLen }

\* and every buffer of that length over two of the values NaN, -1, 1
DenseBufs ==
    UNION { [0 .. n - 1 -> pair] :
            n \in SMALL_SIZE + 1 .. LongLen, pair \in {{NaN, One}, {NaN, NegOne}, {NegOne, One}} }

LongBufs == SparseBufs \cup DenseBufs

ShortInputs ==
    { <<buf, sz, st>> \in ShortBufs \X (0 .. ShortLen) \X (1 .. MaxStride) : Fits(buf, sz, st) }

LongInputs ==
    { <<buf, sz, st>> \in LongBufs \X (SMALL_SIZE + 1 .. LongLen) \X {1} : Fits(buf, sz, st) }

\* a few inputs on either side of every dispatch condition
ModeInputs ==
    { <<buf, sz, st>> \in { [i \in 0 .. LongLen - 1 |-> v] : v \in {One, NaN} }
                          \X {0, 1, SMALL_SIZE, LongLen} \X (1 .. MaxStride) : Fits(buf, sz, st) }

EnvVals == {<<>>} \cup { <<n>> : n \in 0 .. MaxEnv }

InitCall ==
    /\ mode = <<>>
    /\ envReads = 0
    /\ fn = "none"
    /\ min = PZero
    /\ max = PZero
    /\ impl = <<>>
    /\ reads = {}
    /\ observed = <<>>
    /\ hasRet = <<>>
    /\ useRet = <<>>

Init ==
    /\ sse \in BOOLEAN
    /\ env \in EnvVals
    /\ \E in \in ModeInputs : values = in[1] /\ size = in[2] /\ stride = in[3]
    /\ InitCall

\* every build and mode on the short inputs; the build and mode that reach the
\* bulk path on the long ones
InitScan ==
    /\ \/ /\ sse \in BOOLEAN
          /\ env \in { <<m>> : m \in IF sse THEN Modes ELSE {DEFAULT_MODE} }
          /\ \E in \in ShortInputs : values = in[1] /\ size = in[2] /\ stride = in[3]
       \/ /\ sse = TRUE
          /\ env \in {<<>>, <<DEFAULT_MODE>>}
          /\ \E in \in LongInputs : values = in[1] /\ size = in[2] /\ stride = in[3]
    /\ InitCall

\* ------------------------------------------------------------------------
\* Operations
\* ------------------------------------------------------------------------
\* the call of hack_sse2_mode() that every public function makes under
\* #ifdef USE_SSE2_INSTRUCTIONS, and makes not at all without it
ReadMode(h) ==
    /\ mode' = IF sse THEN h.static ELSE mode
    /\ envReads' = IF sse THEN envReads + h.envReads ELSE envReads
    /\ observed' = IF sse THEN <<h.ret>> ELSE <<>>

unsafeScanArray ==
    \E h \in {hack_sse2_mode(mode, env)} :
    \E path \in {unsafeScanArray_path(sse, h.ret, size, stride)} :
    \E r \in {unsafeScanArray_run(path, values, size, stride)} :
       /\ ReadMode(h)
       /\ fn' = "unsafeScanArray"
       /\ min' = r.min
       /\ max' = r.max
       /\ impl' = <<path>>
       /\ reads' = r.reads
       /\ UNCHANGED <<sse, env, values, size, stride, hasRet, useRet>>

scanArray ==
    \E h \in {hack_sse2_mode(mode, env)} :
    \E path \in {scanArray_path(sse, h.ret, size, stride)} :
    \E r \in {scanArray_run(path, values, size, stride)} :
       /\ ReadMode(h)
       /\ fn' = "scanArray"
       /\ min' = r.min
       /\ max' = r.max
       /\ impl' = <<path>>
       /\ reads' = r.reads
       /\ UNCHANGED <<sse, env, values, size, stride, hasRet, useRet>>

has_sse2 ==
    \E h \in {hack_sse2_mode(mode, env)} :
       /\ ReadMode(h)
       /\ fn' = "has_sse2"
       /\ hasRet' = <<has_sse2_ret(sse, h.ret)>>
       /\ UNCHANGED <<sse, env, values, size, stride, min, max, impl, reads, useRet>>

use_sse2 ==
    \E h \in {hack_sse2_mode(mode, env)} :
       /\ ReadMode(h)
       /\ fn' = "use_sse2"
       /\ useRet' = <<use_sse2_ret(sse, h.ret)>>
       /\ UNCHANGED <<sse, env, values, size, stride, min, max, impl, reads, hasRet>>

\* the environment variable is changed from outside the module
SetEnv ==
    /\ env' \in EnvVals \ {env}
    /\ UNCHANGED <<sse, mode, envReads, values, size, stride, fn, min, max, impl,
                   reads, observed, hasRet, useRet>>

Next == unsafeScanArray \/ scanArray \/ has_sse2 \/ use_sse2 \/ SetEnv

Spec == Init /\ [][Next]_vars

NextScan == unsafeScanArray \/ scanArray

SpecScan == InitScan /\ [][NextScan]_vars

\* ------------------------------------------------------------------------
\* What the claims speak of
\* ------------------------------------------------------------------------
Scans == {"scanArray", "unsafeScanArray"}

\* the offsets of the visited elements, and their values
Offsets == { i * stride : i \in 0 .. size - 1 }

Visited == { values[o] : o \in Offsets }

NonFinite == {NaN, PInf, NInf}

IsLeast(m, S) == m \in S /\ \A x \in S : Key(m) <= Key(x)

IsGreatest(m, S) == m \in S /\ \A x \in S : Key(m) >= Key(x)

\* equal as floats (-0 equals +0), or both NaN
SameFloat(a, b) == (IsNaN(a) /\ IsNaN(b)) \/ (~IsNaN(a) /\ ~IsNaN(b) /\ Key(a) = Key(b))

\* what function f returns on the current input in this build under mode m
ResultUnder(f, m, buf) ==
    IF f = "scanArray"
    THEN scanArray_run(scanArray_path(sse, m, size, stride), buf, size, stride)
    ELSE unsafeScanArray_run(unsafeScanArray_path(sse, m, size, stride), buf, size, stride)

SameUnderAllModes ==
    \A m \in Modes : LET r == ResultUnder(fn, m, values)
                     IN SameFloat(min, r.min) /\ SameFloat(max, r.max)

\* the mode the calls of this process see
ModeInEffect == IF mode = <<>> THEN getNumericEnv(env, DEFAULT_MODE) ELSE mode[1]

VectorImpls == {"sse2_stridedMinMax", "sse2_vectorMinMax", "sse2_stridedMinMaxSafe", "sse2_vectorMinMaxSafe"}

BulkImpls == {"sse2_vectorMinMax", "sse2_vectorMinMaxSafe"}

\* ------------------------------------------------------------------------
\* Claims
\* ------------------------------------------------------------------------
\* C1: in every build and mode, scanArray returns the smallest and the largest
\* of the finite visited values, and exactly (+Infinity, -Infinity) when no
\* visited value is finite.
C1_ScanArrayFiniteMinMax ==
    fn = "scanArray" =>
        LET F == Visited \ NonFinite
        IN IF F = {} THEN min = PInf /\ max = NInf
           ELSE IsLeast(min, F) /\ IsGreatest(max, F)

C1_Witness ==
    /\ fn = "scanArray"
    /\ impl = <<"sse2_vectorMinMaxSafe">>
    /\ {NaN, NInf} \subseteq Visited
    /\ min = NegOne
    /\ max = NegOne

\* C2 as stated: for both entry points and every input, the result is the same
\* under modes 0, 1, 2 and 3.
C2_SameUnderAllModes == fn \in Scans => SameUnderAllModes

\* C2 amended: scanArray's result is the same under modes 0..3 on every input;
\* unsafeScanArray's is on every input whose visited elements hold no NaN.
C2_SameUnderAllModesNoNaN ==
    /\ fn = "scanArray" => SameUnderAllModes
    /\ fn = "unsafeScanArray" /\ NaN \notin Visited => SameUnderAllModes

C2_Witness ==
    /\ fn = "unsafeScanArray"
    /\ impl = <<"sse2_vectorMinMax">>
    /\ {PInf, NegOne} \subseteq Visited
    /\ min = NegOne
    /\ max = PInf

\* C3: on a non-empty input whose visited elements are all finite, scanArray
\* and unsafeScanArray return exactly the same pair under the same mode.
C3_SafeEqualsUnsafeOnFinite ==
    fn \in Scans /\ size > 0 /\ Visited \cap NonFinite = {} =>
        LET other == ResultUnder(CHOOSE f \in Scans : f # fn, ModeInEffect, values)
        IN min = other.min /\ max = other.max

C3_Witness ==
    /\ fn = "scanArray"
    /\ impl = <<"sse2_vectorMinMaxSafe">>
    /\ Visited = {PZero, NZero, One}

\* C4 as stated: min <= max when unsafeScanArray visits any element or scanArray
\* visits a finite one, and the sentinel pair otherwise.
C4_MinLeqMaxOrSentinel ==
    fn \in Scans =>
        LET Q == IF fn = "scanArray" THEN Visited \ NonFinite ELSE Visited
        IN IF Q = {} THEN min = PInf /\ max = NInf
           ELSE ~IsNaN(min) /\ ~IsNaN(max) /\ Key(min) <= Key(max)

\* C4 amended: the same, where a NaN that unsafeScanArray visits lifts the
\* promise of min <= max.
C4_MinLeqMaxOrSentinelNoNaN ==
    fn \in Scans /\ (fn = "unsafeScanArray" => NaN \notin Visited) =>
        LET Q == IF fn = "scanArray" THEN Visited \ NonFinite ELSE Visited
        IN IF Q = {} THEN min = PInf /\ max = NInf
           ELSE ~IsNaN(min) /\ ~IsNaN(max) /\ Key(min) <= Key(max)

C4_Witness ==
    /\ fn = "unsafeScanArray"
    /\ size = 2
    /\ Visited = {PInf, NInf}
    /\ min = NInf
    /\ max = PInf

\* C5: a scan reads the offsets i*stride, 0 <= i < size, and no other; and a
\* buffer that differs only at another offset gives the same result.
C5_ReadsOnlyStridedOffsets ==
    fn \in Scans =>
        /\ reads = Offsets
        /\ \A o \in DOMAIN values \ Offsets : \A v \in Vals :
              LET r == ResultUnder(fn, ModeInEffect, [values EXCEPT ![o] = v])
              IN r.min = min /\ r.max = max

C5_Witness ==
    /\ fn = "scanArray"
    /\ stride = 2
    /\ size = 2
    /\ values[1] = NInf
    /\ reads = {0, 2}
    /\ min = PZero
    /\ max = One

\* C6 as stated: whatever the build, use_sse2() returns false exactly when the
\* override mode is 3.
C6_UseSse2FalseOnlyInMode3 == useRet # <<>> => useRet[1] = (ModeInEffect # 3)

\* C6 amended: in a build with vector acceleration use_sse2() returns false
\* exactly when the cached mode is 3; in a build without it, always false.
C6_UseSse2FalseInMode3OrWithoutSse ==
    useRet # <<>> => useRet[1] = (IF sse THEN mode[1] # 3 ELSE FALSE)

C6_Witness ==
    /\ sse
    /\ fn = "use_sse2"
    /\ mode = <<3>>
    /\ useRet = <<FALSE>>

\* C7: has_sse2() is true exactly when vector acceleration is compiled in and
\* the cached mode is neither 2 nor 3; has_sse2() implies use_sse2(); and
\* has_sse2() is true exactly when the scans take a vector path.
C7_HasSse2 ==
    /\ hasRet # <<>> => hasRet[1] = (IF sse THEN mode[1] \notin {2, 3} ELSE FALSE)
    /\ hasRet = <<TRUE>> => useRet # <<FALSE>>
    /\ hasRet # <<>> =>
          /\ hasRet[1] <=> scanArray_path(sse, ModeInEffect, size, stride) \in VectorImpls
          /\ hasRet[1] <=> unsafeScanArray_path(sse, ModeInEffect, size, stride) \in VectorImpls
          /\ impl # <<>> => (hasRet[1] <=> impl[1] \in VectorImpls)

C7_Witness ==
    /\ hasRet = <<TRUE>>
    /\ useRet = <<TRUE>>
    /\ impl = <<"sse2_vectorMinMax">>

C10_CpuUnsafeSkipsNaN ==
    impl = <<"cpu_stridedMinMax">> =>
        LET Q == Visited \ {NaN}
        IN /\ ~IsNaN(min) /\ ~IsNaN(max)
           /\ IF Q = {} THEN min = PInf /\ max = NInf
              ELSE /\ Key(min) = Key(CHOOSE x \in Q : IsLeast(x, Q))
                   /\ Key(max) = Key(CHOOSE x \in Q : IsGreatest(x, Q))
                   /\ min \in Q \cup {PInf}
                   /\ max \in Q \cup {NInf}

C10_Witness ==
    /\ impl = <<"cpu_stridedMinMax">>
    /\ Visited = {NaN, NInf, One}
    /\ min = NInf
    /\ max = One

====
